---- MODULE Spec2Model ----
(***************************************************************************)
(* A model of msbee: the Task record (task.py), the identifier assigner    *)
(* (task_ids.py) and the task extraction and daily-note rewriting of       *)
(* MsBee (msbee.py).                                                       *)
(*                                                                         *)
(* Text is a sequence of characters; a character is a one-element token:   *)
(* an ASCII character stands for itself and a non-ASCII code point is      *)
(* written "U+XXXX".  The dependency emoji of the source is the two code   *)
(* points U+23ED U+FE0F.                                                   *)
(***************************************************************************)
EXTENDS Integers, Sequences, FiniteSets, TLC

VARIABLES
    task,            \* Task spec: the Task object under test
    result,          \* Task spec: the last value returned by is_eligible
    vault,           \* the .md files of the vault, in rglob order
    prevVault,       \* the vault as it was before the last add_task_ids_to_vault
    runs,            \* number of add_task_ids_to_vault runs so far
    wrote,           \* per file: whether the last run opened it for writing
    pc,              \* extract_tasks: the pass that runs next
    task_objects,    \* extract_tasks: map of clean text to Task
    completed_tasks, \* extract_tasks: set of clean texts of "- [x]" lines
    eligible_tasks,  \* extract_tasks: the returned list
    today,           \* extract_tasks: the today argument of the fourth pass
    note,            \* the dated daily note: NoFile or its text
    prevNote,        \* the note before the last update_daily_note
    content,         \* the content argument of the last update_daily_note
    outcome,         \* how the last update_daily_note ended
    calls,           \* number of update_daily_note calls so far
    cleanArg,        \* the task text clean_task_text is first called on
    cleanRet,        \* what clean_task_text returned, call after call on its own result
    gpt_content,     \* ask_msbee: the reply of the summarizer
    reply            \* ask_msbee: what it parsed and the text it returned

vars == <<task, result, vault, prevVault, runs, wrote, pc, task_objects,
          completed_tasks, eligible_tasks, today, note, prevNote, content,
          outcome, calls, cleanArg, cleanRet, gpt_content, reply>>

taskVars == <<task, result>>
idVars == <<prevVault, runs, wrote>>
extractVars == <<pc, task_objects, completed_tasks, eligible_tasks, today>>
noteVars == <<note, prevNote, content, outcome, calls>>
cleanVars == <<cleanArg, cleanRet>>
askVars == <<gpt_content, reply>>

\* Python's None where a date is expected: the empty tuple (a date is a 3-tuple)
None == << >>
\* no value returned yet
NoResult == [called |-> FALSE]
Idle == "idle"

----------------------------------------------------------------------------
(* Bounds of the model *)

MaxBody == 4        \* characters after the checkbox in an enumerated line
MaxIdLines == 2     \* lines of a file handed to the assigner
MaxRuns == 2        \* add_task_ids_to_vault runs
MaxLines == 3       \* lines of a vault handed to extract_tasks
MaxText == 4        \* tokens of a daily note
MaxContent == 2     \* characters of generated content
MaxCalls == 2       \* update_daily_note calls
MaxCleanLen == 6    \* characters of a task text given to clean_task_text
MaxCleanCalls == 2  \* clean_task_text calls on one text
MaxReplyLines == 5  \* lines of the summarizer's reply
MaxMainLines == 2   \* lines of the file that the two steps of __main__ run over

----------------------------------------------------------------------------
(* Characters and Python's str operations *)

SP == " "
NL == "\n"
PLUS == "U+2795"      \* heavy plus sign
CAL == "U+1F4C5"      \* calendar
SKIP == "U+23ED"      \* next-track button, first code point of the dependency emoji
VS16 == "U+FE0F"      \* variation selector 16, its second code point
NOENTRY == "U+26D4"   \* no entry
IDSIGN == "U+1F194"   \* squared ID
PLANE == "U+1F6EB"    \* airplane departure

Digits == {"0", "1", "2", "3", "4", "5", "6", "7", "8", "9"}

\* str.isspace of one character (\s of re)
IsSpace(c) == c \in {SP, NL, "\t"}

Min(S) == CHOOSE x \in S : \A y \in S : x <= y

\* s[i:] with a 0-based Python index i
From(s, i) == IF i >= Len(s) THEN << >> ELSE SubSeq(s, i + 1, Len(s))

\* s[:i] with a 0-based Python index i
UpTo(s, i) == IF i <= 0 THEN << >> ELSE SubSeq(s, 1, IF i > Len(s) THEN Len(s) ELSE i)

\* s.startswith(p)
StartsWith(s, p) == Len(p) <= Len(s) /\ SubSeq(s, 1, Len(p)) = p

\* whether p occurs in s at 1-based position i
OccursAt(s, p, i) == i >= 1 /\ i + Len(p) - 1 <= Len(s) /\ SubSeq(s, i, i + Len(p) - 1) = p

\* s.find(p, i) as a 1-based position, 0 when p does not occur from i on
RECURSIVE FindFrom(_, _, _)
FindFrom(s, p, i) ==
    IF i + Len(p) - 1 > Len(s) THEN 0
    ELSE IF OccursAt(s, p, i) THEN i
    ELSE FindFrom(s, p, i + 1)

\* s.find(p) as a 1-based position, 0 when p does not occur
Find(s, p) == FindFrom(s, p, 1)

\* p in s
Contains(s, p) == Find(s, p) # 0

\* s.rstrip()
RECURSIVE RStrip(_)
RStrip(s) ==
    IF s = << >> THEN s
    ELSE IF IsSpace(s[Len(s)]) THEN RStrip(SubSeq(s, 1, Len(s) - 1))
    ELSE s

\* s.lstrip()
RECURSIVE LStrip(_)
LStrip(s) ==
    IF s = << >> THEN s
    ELSE IF IsSpace(s[1]) THEN LStrip(Tail(s))
    ELSE s

\* s.strip()
Strip(s) == LStrip(RStrip(s))

\* s.split(sep)[0]
SplitFirst(s, sep) ==
    LET i == Find(s, sep) IN IF i = 0 THEN s ELSE SubSeq(s, 1, i - 1)

\* the first position >= i (1-based) of s that holds no whitespace, Len(s)+1 if none
RECURSIVE SkipSpace(_, _)
SkipSpace(s, i) ==
    IF i > Len(s) THEN Len(s) + 1
    ELSE IF IsSpace(s[i]) THEN SkipSpace(s, i + 1)
    ELSE i

\* all sequences over S of length at most n
RECURSIVE SeqsUpTo(_, _)
SeqsUpTo(S, n) ==
    IF n = 0 THEN {<< >>}
    ELSE LET shorter == SeqsUpTo(S, n - 1)
         IN shorter \cup {Append(s, c) : s \in {t \in shorter : Len(t) = n - 1}, c \in S}

----------------------------------------------------------------------------
(* task.py: the Task record *)

\* a date is <<year, month, day>>
DateLE(a, b) ==
    \/ a[1] < b[1]
    \/ a[1] = b[1] /\ a[2] < b[2]
    \/ a[1] = b[1] /\ a[2] = b[2] /\ a[3] <= b[3]

DateGT(a, b) == ~DateLE(a, b)

\* Task.__init__
NewTask(text, location, start_date, dependencies) ==
    [text |-> text, location |-> location, start_date |-> start_date,
     dependencies |-> dependencies, is_completed |-> FALSE]

\* a plausible slip: the dependency test left out
IsEligibleNoDeps(t, day) ==
    IF t.is_completed THEN FALSE
    ELSE IF t.start_date # None /\ DateGT(t.start_date, day) THEN FALSE
    ELSE TRUE

\* Task.is_eligible
is_eligible(t, day) ==
    IF t.is_completed THEN FALSE
    ELSE IF t.start_date # None /\ DateGT(t.start_date, day) THEN FALSE
    ELSE IF Cardinality(t.dependencies) > 0 THEN FALSE
    ELSE TRUE

----------------------------------------------------------------------------
(* The Task record on its own: construction, completion, is_eligible *)

TaskDates == {<<2023, 12, 31>>, <<2024, 1, 1>>, <<2024, 1, 2>>}
TaskDeps == {"d1", "d2"}

InitTask ==
    /\ cleanArg = Idle /\ cleanRet = Idle
    /\ gpt_content = Idle /\ reply = Idle
    /\ task \in {NewTask(<<"T">>, "test.md", sd, deps) :
                    sd \in {None} \cup TaskDates, deps \in SUBSET TaskDeps}
    /\ result = NoResult
    /\ vault = Idle /\ prevVault = Idle /\ runs = 0 /\ wrote = Idle
    /\ pc = Idle /\ task_objects = Idle /\ completed_tasks = Idle
    /\ eligible_tasks = Idle /\ today = Idle
    /\ note = Idle /\ prevNote = Idle /\ content = Idle /\ outcome = Idle /\ calls = 0

\* task.is_completed = True (msbee.py third pass, test_task.py)
MarkCompleted ==
    /\ ~task.is_completed
    /\ task' = [task EXCEPT !.is_completed = TRUE]
    /\ UNCHANGED <<result, vault, idVars, extractVars, noteVars, cleanVars, askVars>>

\* a call task.is_eligible(day)
CallIsEligible ==
    /\ \E day \in TaskDates :
          result' = [called |-> TRUE, task |-> task, day |-> day, value |-> is_eligible(task, day)]
    /\ UNCHANGED <<task, vault, idVars, extractVars, noteVars, cleanVars, askVars>>

NextTask == MarkCompleted \/ CallIsEligible

SpecTask == InitTask /\ [][NextTask]_vars

\* C1: is_eligible(today) returns true exactly when the task is not completed,
\* its start date is absent or not after today, and its dependency set is
\* empty.
C1_EligibleIff ==
    result.called =>
        (result.value <=>
            /\ ~result.task.is_completed
            /\ (result.task.start_date = None \/ DateLE(result.task.start_date, result.day))
            /\ result.task.dependencies = {})

\* a task that is open and already started but has a dependency was refused
C1_Witness ==
    /\ result.called
    /\ ~result.value
    /\ ~result.task.is_completed
    /\ result.task.start_date # None
    /\ DateLE(result.task.start_date, result.day)
    /\ result.task.dependencies # {}

----------------------------------------------------------------------------
(* Files of the vault *)

\* f.readlines() followed by line.rstrip("\n") on every line
RECURSIVE ReadLines(_)
ReadLines(text) ==
    IF text = << >> THEN << >>
    ELSE LET i == Find(text, <<NL>>)
         IN IF i = 0 THEN <<text>>
            ELSE <<SubSeq(text, 1, i - 1)>> \o ReadLines(SubSeq(text, i + 1, Len(text)))

\* "\n".join(lines)
RECURSIVE JoinLines(_)
JoinLines(lines) ==
    IF lines = << >> THEN << >>
    ELSE IF Len(lines) = 1 THEN lines[1]
    ELSE lines[1] \o <<NL>> \o JoinLines(Tail(lines))

\* a .md file: whether "Templates" occurs in its path, and its text
MdFile(in_templates, text) == [in_templates |-> in_templates, text |-> text]

\* the text of a file holding these lines, with or without a final newline
FileText(lines, final_newline) ==
    IF lines = << >> THEN << >>
    ELSE JoinLines(lines) \o (IF final_newline THEN <<NL>> ELSE << >>)

----------------------------------------------------------------------------
(* task_ids.py: the identifier assigner *)

OpenPrefix == <<"-", SP, "[", SP, "]">>
DonePrefix == <<"-", SP, "[", "x", "]">>
IdMarker == <<IDSIGN, SP>>
\* the character class of metadata_pattern: six code points
MetaClass == {PLUS, CAL, SKIP, VS16, NOENTRY, IDSIGN}
IdLen == 6

\* generate_short_id: a sample of the 62^6 strings it can draw
GeneratedIds == {[i \in 1..IdLen |-> c] : c \in {"k", "7"}}

\* " 🆔 " + id
IdPart(id) == <<SP, IDSIGN, SP>> \o id

\* whether (\s*[class]\s+\S+) matches at 1-based position p
MetadataMatchAt(s, p) ==
    LET q == SkipSpace(s, p)
    IN /\ q <= Len(s)
       /\ s[q] \in MetaClass
       /\ q + 1 <= Len(s)
       /\ IsSpace(s[q + 1])
       /\ SkipSpace(s, q + 1) <= Len(s)

\* re.search(metadata_pattern, line): 1-based start of the leftmost match, 0 if none
MetadataSearch(s) ==
    LET hits == {p \in 1..Len(s) : MetadataMatchAt(s, p)}
    IN IF hits = {} THEN 0 ELSE Min(hits)

\* a plausible slip: the test for an existing identifier left out
AddIdAlways(line, id) ==
    IF StartsWith(line, OpenPrefix)
    THEN LET m == MetadataSearch(line)
         IN IF m # 0
            THEN SubSeq(line, 1, m - 1) \o IdPart(id) \o SubSeq(line, m, Len(line))
            ELSE RStrip(line) \o IdPart(id)
    ELSE line

\* a plausible slip: any checkbox line taken for an open task
AddIdAnyCheckbox(line, id) ==
    IF StartsWith(line, <<"-", SP, "[">>)
    THEN IF Contains(line, IdMarker)
         THEN line
         ELSE LET m == MetadataSearch(line)
              IN IF m # 0
                 THEN SubSeq(line, 1, m - 1) \o IdPart(id) \o SubSeq(line, m, Len(line))
                 ELSE RStrip(line) \o IdPart(id)
    ELSE line

\* the body of the loop of add_task_ids_to_lines, for one line
AddTaskIdToLine(line, id) ==
    IF StartsWith(line, OpenPrefix)
    THEN IF Contains(line, IdMarker)
         THEN line
         ELSE LET m == MetadataSearch(line)
              IN IF m # 0
                 THEN SubSeq(line, 1, m - 1) \o IdPart(id) \o SubSeq(line, m, Len(line))
                 ELSE RStrip(line) \o IdPart(id)
    ELSE line

\* add_task_ids_to_lines; ids[i] is the identifier drawn if line i needs one
add_task_ids_to_lines(lines, ids) ==
    [i \in 1..Len(lines) |-> AddTaskIdToLine(lines[i], ids[i])]

\* the body of the loop of add_task_ids_to_vault, for one file
FileAfterAddIds(file, ids) ==
    LET lines == ReadLines(file.text)
        updated_lines == add_task_ids_to_lines(lines, ids)
    IN IF updated_lines # lines
       THEN [file |-> [file EXCEPT !.text = JoinLines(updated_lines) \o <<NL>>], wrote |-> TRUE]
       ELSE [file |-> file, wrote |-> FALSE]

\* whether the loop draws an identifier for this line
NeedsId(line) == StartsWith(line, OpenPrefix) /\ ~Contains(line, IdMarker)

\* the identifiers that a run over one file may draw: one for each line that
\* needs one (the entry of any other line is never read)
FileDraws(file) ==
    LET lines == ReadLines(file.text)
    IN {d \in [1..Len(lines) -> GeneratedIds] :
          \A i \in 1..Len(lines) : ~NeedsId(lines[i]) => d[i] = [k \in 1..IdLen |-> "k"]}

\* the identifiers that a run over the vault may draw
RECURSIVE IdDraws(_)
IdDraws(v) ==
    IF v = << >> THEN {<< >>}
    ELSE {<<d>> \o rest : d \in FileDraws(v[1]), rest \in IdDraws(Tail(v))}

----------------------------------------------------------------------------
(* The identifier assigner run over a vault *)

\* every line "- [ ]" followed by at most n of these characters
BodyChars == {"a", SP, SKIP, VS16, IDSIGN}
EnumeratedLines(n) == {OpenPrefix \o body : body \in SeqsUpTo(BodyChars, n)}

\* lines written the way the tests write them: a text and metadata segments
Segment(marker, value) == <<SP>> \o marker \o <<SP>> \o value
IdSegment == Segment(<<IDSIGN>>, <<"a", "b", "c", "1", "2", "3">>)
TaskLine(prefix, text, meta) == prefix \o <<SP>> \o text \o meta
WrittenLines ==
    {TaskLine(OpenPrefix, <<"A">>, m1 \o m2) :
        m1 \in {<< >>, IdSegment, Segment(<<PLUS>>, <<"v">>), Segment(<<SKIP, VS16>>, <<"B">>)},
        m2 \in {<< >>, Segment(<<CAL>>, <<"w">>)}}
    \cup {TaskLine(DonePrefix, <<"A">>, m) : m \in {<< >>, IdSegment}}
    \cup {<<"#", SP, "H">>, <<SP, SP>> \o TaskLine(OpenPrefix, <<"A">>, << >>)}

IdsVaults(body, n) ==
    {<<MdFile(FALSE, FileText(<<line>>, TRUE))>> : line \in EnumeratedLines(body)}
    \cup {<<MdFile(FALSE, FileText(lines, nl))>> :
            lines \in SeqsUpTo(WrittenLines, n), nl \in BOOLEAN}
    \cup {<<MdFile(FALSE, FileText(<<l1>>, TRUE)), MdFile(TRUE, FileText(<<l2>>, nl))>> :
            l1 \in WrittenLines, l2 \in WrittenLines, nl \in BOOLEAN}

InitIds ==
    /\ cleanArg = Idle /\ cleanRet = Idle
    /\ gpt_content = Idle /\ reply = Idle
    /\ vault \in IdsVaults(MaxBody, MaxIdLines)
    /\ prevVault = vault
    /\ runs = 0
    /\ wrote = [f \in 1..Len(vault) |-> FALSE]
    /\ task = Idle /\ result = Idle
    /\ pc = Idle /\ task_objects = Idle /\ completed_tasks = Idle
    /\ eligible_tasks = Idle /\ today = Idle
    /\ note = Idle /\ prevNote = Idle /\ content = Idle /\ outcome = Idle /\ calls = 0

\* add_task_ids_to_vault(vault_path)
AddTaskIdsToVault ==
    /\ runs < MaxRuns
    /\ \E ids \in IdDraws(vault) :
          LET after == [f \in 1..Len(vault) |-> FileAfterAddIds(vault[f], ids[f])]
          IN /\ vault' = [f \in 1..Len(vault) |-> after[f].file]
             /\ wrote' = [f \in 1..Len(vault) |-> after[f].wrote]
    /\ prevVault' = vault
    /\ runs' = runs + 1
    /\ UNCHANGED <<taskVars, extractVars, noteVars, cleanVars, askVars>>

NextIds == AddTaskIdsToVault

SpecIds == InitIds /\ [][NextIds]_vars

LinesOf(v, f) == ReadLines(v[f].text)

\* C2: identifier assignment is idempotent: on the lines a run returned,
\* add_task_ids_to_lines returns the same lines whatever identifiers it could
\* draw, and a second run over the vault writes no file and leaves every
\* file's text as it was.
C2_Idempotent ==
    /\ runs >= 1 =>
          \A f \in 1..Len(vault) :
             \A ids \in FileDraws(vault[f]) :
                add_task_ids_to_lines(LinesOf(vault, f), ids) = LinesOf(vault, f)
    /\ runs >= 2 => \A f \in 1..Len(vault) : ~wrote[f] /\ vault[f] = prevVault[f]
    /\ \A f \in 1..Len(vault) : wrote[f] => LinesOf(vault, f) # LinesOf(prevVault, f)

\* a second run has gone over a vault that the first run had to stamp
C2_Witness ==
    /\ runs = 2
    /\ \E f \in 1..Len(vault) :
          \E i \in 1..Len(LinesOf(vault, f)) :
             /\ StartsWith(LinesOf(vault, f)[i], OpenPrefix)
             /\ \E id \in GeneratedIds : Contains(LinesOf(vault, f)[i], IdPart(id))

\* C3: add_task_ids_to_lines returns as many lines as it was given, and returns
\* unchanged, at the same index, every line that does not begin with "- [ ]"
\* and every "- [ ]" line that already holds the identifier marker.
C3_OtherLinesUnchanged ==
    runs >= 1 =>
        \A f \in 1..Len(vault) :
           LET before == LinesOf(prevVault, f)
               after == LinesOf(vault, f)
           IN /\ Len(after) = Len(before)
              /\ \A i \in 1..Len(before) :
                    (~StartsWith(before[i], OpenPrefix) \/ Contains(before[i], IdMarker))
                        => after[i] = before[i]

\* a run stamped one line of a file and met, in the same file, an open task
\* line that already held an identifier
C3_Witness ==
    /\ runs = 1
    /\ \E f \in 1..Len(vault) :
          /\ wrote[f]
          /\ \E i \in 1..Len(LinesOf(prevVault, f)) :
                /\ StartsWith(LinesOf(prevVault, f)[i], OpenPrefix)
                /\ Contains(LinesOf(prevVault, f)[i], IdMarker)
                /\ LinesOf(vault, f)[i] = LinesOf(prevVault, f)[i]

\* The metadata markers as C4 names them: creation, due date, dependency (with
\* or without its variation selector) and blocked, each followed by a space and
\* a value.
NamedMarkers == {<<PLUS>>, <<CAL>>, <<SKIP, VS16>>, <<SKIP>>, <<NOENTRY>>}
NamedMarkerAt(s, q) ==
    \E m \in NamedMarkers :
        /\ OccursAt(s, m, q)
        /\ q + Len(m) <= Len(s)
        /\ IsSpace(s[q + Len(m)])
        /\ SkipSpace(s, q + Len(m)) <= Len(s)
FirstNamedMarker(s) ==
    LET hits == {q \in 1..Len(s) : NamedMarkerAt(s, q)}
    IN IF hits = {} THEN 0 ELSE Min(hits)
\* the start of the run of whitespace that ends just before position q
RECURSIVE SpaceRunStart(_, _)
SpaceRunStart(s, q) ==
    IF q > 1 /\ IsSpace(s[q - 1]) THEN SpaceRunStart(s, q - 1) ELSE q
SplicedBeforeFirstMarker(line, id) ==
    LET p == SpaceRunStart(line, FirstNamedMarker(line))
    IN SubSeq(line, 1, p - 1) \o IdPart(id) \o SubSeq(line, p, Len(line))

\* C4: an open task line that lacks the identifier marker and holds a
\* metadata marker comes back with one " <id-marker> <6 characters>" spliced in
\* just before its first metadata marker, so that every marker and its value
\* stands intact after the identifier.
C4_SplicedBeforeFirstMarker ==
    runs = 1 =>
        \A f \in 1..Len(vault) :
           \A i \in 1..Len(LinesOf(prevVault, f)) :
              LET line == LinesOf(prevVault, f)[i]
              IN (/\ StartsWith(line, OpenPrefix)
                  /\ ~Contains(line, IdMarker)
                  /\ FirstNamedMarker(line) # 0)
                    => \E id \in GeneratedIds :
                          LinesOf(vault, f)[i] = SplicedBeforeFirstMarker(line, id)

----------------------------------------------------------------------------
(* msbee.py: clean_task_text and the parsing of one task text *)

\* one line of clean_task_text: cut at " <marker> " if it occurs
CutAt(t, marker) ==
    LET sep == <<SP>> \o marker \o <<SP>>
    IN IF Contains(t, sep) THEN SplitFirst(t, sep) ELSE t

\* a plausible slip: the five tests chained as if/elif, so that only the first
\* marker of the list that occurs cuts the text
CleanAtFirstListedMarker(task_text) ==
    IF Contains(task_text, <<SP, PLUS, SP>>) THEN CutAt(task_text, <<PLUS>>)
    ELSE IF Contains(task_text, <<SP, CAL, SP>>) THEN CutAt(task_text, <<CAL>>)
    ELSE IF Contains(task_text, <<SP, SKIP, VS16, SP>>) THEN CutAt(task_text, <<SKIP, VS16>>)
    ELSE IF Contains(task_text, <<SP, NOENTRY, SP>>) THEN CutAt(task_text, <<NOENTRY>>)
    ELSE CutAt(task_text, <<IDSIGN>>)

\* MsBee.clean_task_text
clean_task_text(task_text) ==
    CutAt(CutAt(CutAt(CutAt(CutAt(task_text, <<PLUS>>), <<CAL>>), <<SKIP, VS16>>),
                <<NOENTRY>>), <<IDSIGN>>)

DigitValue(c) ==
    CASE c = "0" -> 0 [] c = "1" -> 1 [] c = "2" -> 2 [] c = "3" -> 3 [] c = "4" -> 4
      [] c = "5" -> 5 [] c = "6" -> 6 [] c = "7" -> 7 [] c = "8" -> 8 [] c = "9" -> 9

\* whether \d{4}-\d{2}-\d{2} matches at 1-based position p
IsoShapeAt(s, p) ==
    /\ p + 9 <= Len(s)
    /\ \A k \in {0, 1, 2, 3, 5, 6, 8, 9} : s[p + k] \in Digits
    /\ s[p + 4] = "-"
    /\ s[p + 7] = "-"

\* a plausible slip: the due date marker read as the start date
StartDateSearchOnDueMarker(s) ==
    LET hits == {p \in 1..Len(s) : OccursAt(s, <<CAL, SP>>, p) /\ IsoShapeAt(s, p + 2)}
    IN IF hits = {} THEN 0 ELSE Min(hits) + 2

\* re.search(r'🛫 (\d{4}-\d{2}-\d{2})', task_text): 1-based start of group 1, 0 if none
StartDateSearch(s) ==
    LET hits == {p \in 1..Len(s) : OccursAt(s, <<PLANE, SP>>, p) /\ IsoShapeAt(s, p + 2)}
    IN IF hits = {} THEN 0 ELSE Min(hits) + 2

IsLeap(y) == y % 4 = 0 /\ (y % 100 # 0 \/ y % 400 = 0)
DaysInMonth(y, m) ==
    IF m = 2 THEN (IF IsLeap(y) THEN 29 ELSE 28)
    ELSE IF m \in {4, 6, 9, 11} THEN 30 ELSE 31

\* date.fromisoformat on the ten characters at p: the date, or raised (ValueError)
FromIsoFormat(s, p) ==
    LET y == 1000 * DigitValue(s[p]) + 100 * DigitValue(s[p + 1])
             + 10 * DigitValue(s[p + 2]) + DigitValue(s[p + 3])
        m == 10 * DigitValue(s[p + 5]) + DigitValue(s[p + 6])
        d == 10 * DigitValue(s[p + 8]) + DigitValue(s[p + 9])
    IN IF y >= 1 /\ m >= 1 /\ m <= 12 /\ d >= 1 /\ d <= DaysInMonth(y, m)
       THEN [raised |-> FALSE, date |-> <<y, m, d>>]
       ELSE [raised |-> TRUE, date |-> None]

\* the lookahead (?=\s*$|\s*[#@]) at 1-based position e
DependencyEndAt(s, e) ==
    LET q == SkipSpace(s, e) IN q > Len(s) \/ s[q] \in {"#", "@"}

\* re.search(r'⏭️ (.*?)(?=\s*$|\s*[#@])', task_text).group(1).strip(), as a set:
\* empty when the pattern does not match
DependencyTexts(s) ==
    LET p == Find(s, <<SKIP, VS16, SP>>)
    IN IF p = 0 THEN {}
       ELSE LET start == p + 3
                e == Min({k \in start..(Len(s) + 1) : DependencyEndAt(s, k)})
            IN {Strip(SubSeq(s, start, e - 1))}

Letters ==
    {"a", "b", "c", "d", "e", "f", "g", "h", "i", "j", "k", "l", "m", "n", "o", "p", "q",
     "r", "s", "t", "u", "v", "w", "x", "y", "z", "A", "B", "C", "D", "E", "F", "G", "H",
     "I", "J", "K", "L", "M", "N", "O", "P", "Q", "R", "S", "T", "U", "V", "W", "X", "Y", "Z"}

\* re.search(r'🆔 ([a-zA-Z0-9]{6})', text): group 1, or None
TaskIdOf(s) ==
    LET hits == {p \in 1..Len(s) :
                    /\ OccursAt(s, IdMarker, p)
                    /\ p + 1 + IdLen <= Len(s)
                    /\ \A k \in 1..IdLen : s[p + 1 + k] \in Letters \cup Digits}
    IN IF hits = {} THEN None ELSE SubSeq(s, Min(hits) + 2, Min(hits) + 1 + IdLen)

----------------------------------------------------------------------------
(* msbee.py: extract_tasks *)

\* task_objects is a dict: a sequence of [key, task] in insertion order
HasKey(dict, k) == \E i \in 1..Len(dict) : dict[i].key = k
Get(dict, k) == dict[CHOOSE i \in 1..Len(dict) : dict[i].key = k].task
Put(dict, k, t) ==
    IF HasKey(dict, k)
    THEN [i \in 1..Len(dict) |-> IF dict[i].key = k THEN [key |-> k, task |-> t] ELSE dict[i]]
    ELSE Append(dict, [key |-> k, task |-> t])
Keys(dict) == {dict[i].key : i \in 1..Len(dict)}

\* an element of Task.dependencies: a text key (first pass) or a reference to
\* the Task object that task_objects holds under a key (second pass)
TextDep(k) == [kind |-> "text", key |-> k]
TaskRef(k) == [kind |-> "task", key |-> k]

\* first pass, one line of the file at `location`
CollectLine(acc, raw_line, location) ==
    LET line == Strip(raw_line)
    IN IF acc.raised \/ line = << >> THEN acc
       ELSE IF StartsWith(line, DonePrefix)
       THEN [acc EXCEPT !.completed_tasks = @ \cup {clean_task_text(Strip(From(line, 6)))}]
       ELSE IF StartsWith(line, OpenPrefix)
       THEN LET task_text == Strip(From(line, 6))
                clean_text == clean_task_text(task_text)
                p == StartDateSearch(task_text)
                parsed == IF p = 0 THEN [raised |-> FALSE, date |-> None]
                          ELSE FromIsoFormat(task_text, p)
                dependencies == {TextDep(clean_task_text(d)) : d \in DependencyTexts(task_text)}
            IN IF parsed.raised THEN [acc EXCEPT !.raised = TRUE]
               ELSE [acc EXCEPT !.task_objects =
                        Put(@, clean_text, NewTask(task_text, location, parsed.date, dependencies))]
       ELSE acc

RECURSIVE CollectLines(_, _, _)
CollectLines(acc, lines, location) ==
    IF lines = << >> THEN acc
    ELSE CollectLines(CollectLine(acc, lines[1], location), Tail(lines), location)

\* first pass over the files from index f on
RECURSIVE CollectFiles(_, _, _)
CollectFiles(acc, v, f) ==
    IF f > Len(v) THEN acc
    ELSE IF v[f].in_templates THEN CollectFiles(acc, v, f + 1)
    ELSE CollectFiles(CollectLines(acc, ReadLines(v[f].text), f), v, f + 1)

FirstPass(v) ==
    CollectFiles([task_objects |-> << >>, completed_tasks |-> {}, raised |-> FALSE], v, 1)

\* a plausible slip: the matching text added instead of the Task object
ResolvedAsText(dict) ==
    [i \in 1..Len(dict) |->
        [dict[i] EXCEPT !.task.dependencies = {x \in @ : HasKey(dict, x.key)}]]

\* a plausible slip: unmatched dependency texts kept in the set
ResolvedKeepingUnmatched(dict) ==
    [i \in 1..Len(dict) |->
        [dict[i] EXCEPT !.task.dependencies =
            {IF HasKey(dict, d.key) THEN TaskRef(d.key) ELSE d : d \in @}]]

\* a plausible slip: the resolved set never filled
ResolvedDroppingAll(dict) ==
    [i \in 1..Len(dict) |-> [dict[i] EXCEPT !.task.dependencies = {}]]

\* second pass
SecondPass(dict) ==
    [i \in 1..Len(dict) |->
        [dict[i] EXCEPT !.task.dependencies =
            {TaskRef(d.key) : d \in {x \in @ : HasKey(dict, x.key)}}]]

\* a plausible slip: the third pass leaving every Task as it was
ThirdPassMarkingNone(dict, completed) == dict


\* third pass
ThirdPass(dict, completed) ==
    [i \in 1..Len(dict) |->
        IF dict[i].key \in completed
        THEN [dict[i] EXCEPT !.task.is_completed = TRUE]
        ELSE dict[i]]

\* fourth pass
RECURSIVE FourthPass(_, _)
FourthPass(dict, day) ==
    IF dict = << >> THEN << >>
    ELSE LET t == dict[1].task
         IN (IF is_eligible(t, day)
             THEN <<[text |-> t.text, location |-> t.location, task_id |-> TaskIdOf(t.text)]>>
             ELSE << >>) \o FourthPass(Tail(dict), day)

----------------------------------------------------------------------------
(* extract_tasks run over a vault *)

Dependency(key) == Segment(<<SKIP, VS16>>, key)
StartDate(value) == Segment(<<PLANE>>, value)
DueDate(value) == Segment(<<CAL>>, value)
Date2099 == <<"2", "0", "9", "9", "-", "0", "1", "-", "0", "1">>
Date2024_13_45 == <<"2", "0", "2", "4", "-", "1", "3", "-", "4", "5">>
KeyA == <<"A">>
KeyB == <<"B">>
KeyC == <<"C">>

ExtractLines ==
    {TaskLine(OpenPrefix, KeyA, << >>),
     TaskLine(OpenPrefix, KeyC, << >>),
     TaskLine(OpenPrefix, KeyA, Dependency(KeyB)),
     TaskLine(OpenPrefix, KeyB, Dependency(KeyC)),
     TaskLine(OpenPrefix, KeyA, Dependency(KeyA)),
     TaskLine(OpenPrefix, KeyB, Dependency(KeyA)),
     TaskLine(OpenPrefix, KeyB, DueDate(Date2099)),
     TaskLine(OpenPrefix, KeyB, StartDate(Date2099)),
     TaskLine(OpenPrefix, KeyB, StartDate(Date2024_13_45)),
     TaskLine(DonePrefix, KeyB, << >>),
     TaskLine(DonePrefix, KeyC, << >>)}

\* up to n lines in one file, or two files of one line each, the second
\* of them under Templates or not
ExtractVaults(n) ==
    {<<MdFile(FALSE, FileText(lines, TRUE))>> : lines \in SeqsUpTo(ExtractLines, n)}
    \cup {<<MdFile(FALSE, FileText(<<l1>>, TRUE)), MdFile(t, FileText(<<l2>>, TRUE))>> :
            l1 \in ExtractLines, l2 \in ExtractLines, t \in BOOLEAN}

Todays == {<<2024, 1, 1>>, <<2099, 1, 1>>}

InitExtract ==
    /\ cleanArg = Idle /\ cleanRet = Idle
    /\ gpt_content = Idle /\ reply = Idle
    /\ vault \in ExtractVaults(MaxLines)
    /\ pc = "first"
    /\ task_objects = << >>
    /\ completed_tasks = {}
    /\ eligible_tasks = << >>
    /\ today = None
    /\ prevVault = Idle /\ runs = 0 /\ wrote = Idle
    /\ task = Idle /\ result = Idle
    /\ note = Idle /\ prevNote = Idle /\ content = Idle /\ outcome = Idle /\ calls = 0

\* First pass: collect all tasks and create Task objects
CollectTasks ==
    /\ pc = "first"
    /\ LET collected == FirstPass(vault)
       IN /\ ~collected.raised
          /\ task_objects' = collected.task_objects
          /\ completed_tasks' = collected.completed_tasks
    /\ pc' = "second"
    /\ UNCHANGED <<taskVars, vault, idVars, eligible_tasks, today, noteVars, cleanVars, askVars>>

\* First pass left by the ValueError of date.fromisoformat, which nothing catches
CollectRaises ==
    /\ pc = "first"
    /\ FirstPass(vault).raised
    /\ pc' = "raised"
    /\ UNCHANGED <<taskVars, vault, idVars, task_objects, completed_tasks, eligible_tasks,
                   today, noteVars, cleanVars, askVars>>

\* Second pass: resolve dependencies to actual Task objects
ResolveDependencies ==
    /\ pc = "second"
    /\ task_objects' = SecondPass(task_objects)
    /\ pc' = "third"
    /\ UNCHANGED <<taskVars, vault, idVars, completed_tasks, eligible_tasks, today, noteVars, cleanVars, askVars>>

\* Third pass: mark completed tasks
MarkCompletedTasks ==
    /\ pc = "third"
    /\ task_objects' = ThirdPass(task_objects, completed_tasks)
    /\ pc' = "fourth"
    /\ UNCHANGED <<taskVars, vault, idVars, completed_tasks, eligible_tasks, today, noteVars, cleanVars, askVars>>

\* Fourth pass: return only eligible tasks with their IDs
ReturnEligible ==
    /\ pc = "fourth"
    /\ \E day \in Todays :
          /\ today' = day
          /\ eligible_tasks' = FourthPass(task_objects, day)
    /\ pc' = "returned"
    /\ UNCHANGED <<taskVars, vault, idVars, task_objects, completed_tasks, noteVars, cleanVars, askVars>>

NextExtract ==
    \/ CollectTasks
    \/ CollectRaises
    \/ ResolveDependencies
    \/ MarkCompletedTasks
    \/ ReturnEligible

SpecExtract == InitExtract /\ [][NextExtract]_vars

\* the lines of the files that the first pass reads, stripped, in scan order
RECURSIVE ScannedLines(_)
ScannedLines(v) ==
    IF v = << >> THEN << >>
    ELSE (IF v[1].in_templates THEN << >>
          ELSE LET lines == ReadLines(v[1].text)
               IN [i \in 1..Len(lines) |-> Strip(lines[i])])
         \o ScannedLines(Tail(v))
LineSet(v) == LET lines == ScannedLines(v) IN {lines[i] : i \in 1..Len(lines)}

\* the cleaned keys of the open task lines that are scanned
OpenKeys(v) ==
    {clean_task_text(Strip(From(l, 6))) : l \in {x \in LineSet(v) : StartsWith(x, OpenPrefix)}}
\* the cleaned dependency texts that a task text carries
CleanedDependencies(text) == {clean_task_text(d) : d \in DependencyTexts(text)}
Returned == {eligible_tasks[i] : i \in 1..Len(eligible_tasks)}
ReturnedTexts == {e.text : e \in Returned}

ChainVault ==
    /\ Len(ScannedLines(vault)) = 3
    /\ LineSet(vault) = {TaskLine(OpenPrefix, KeyA, Dependency(KeyB)),
                         TaskLine(OpenPrefix, KeyB, Dependency(KeyC)),
                         TaskLine(OpenPrefix, KeyC, << >>)}

\* C5: extract_tasks returns no open task whose cleaned dependency text is the
\* cleaned key of an open task line of the vault; of a chain A -> B -> C of
\* open tasks it returns C alone.
C5_DependentNeverReturned ==
    pc = "returned" =>
        LET open_keys == OpenKeys(vault)
        IN /\ \A e \in Returned : CleanedDependencies(e.text) \cap open_keys = {}
           /\ ChainVault => ReturnedTexts = {KeyC}

\* the chain was extracted
C5_Witness == pc = "returned" /\ ChainVault /\ ReturnedTexts = {KeyC}

CompletedDependencyVault ==
    /\ Len(ScannedLines(vault)) = 2
    /\ LineSet(vault) = {TaskLine(DonePrefix, KeyB, << >>),
                         TaskLine(OpenPrefix, KeyA, Dependency(KeyB))}

\* C6 as stated: for a vault of a completed line "- [x] B" and an open line A
\* whose dependency marker names B, extract_tasks returns nothing.
C6_CompletedDependencyBlocks ==
    (pc = "returned" /\ CompletedDependencyVault) => Returned = {}

\* C6 as amended: for that vault extract_tasks returns A, and A alone: B has no
\* Task object, so the second pass drops the reference to it.
C6_CompletedDependencyDropped ==
    (pc = "returned" /\ CompletedDependencyVault) =>
        ReturnedTexts = {KeyA \o Dependency(KeyB)}

\* that vault was extracted and one task came back
C6_Witness ==
    /\ pc = "returned"
    /\ CompletedDependencyVault
    /\ Len(eligible_tasks) = 1

\* C7: after the second pass every element of a dependency set is a Task
\* object held by task_objects, a task whose dependency text is the key of no
\* open task has an empty set, and such a task is returned when it is not
\* completed and its start date is not after today.
C7_DanglingDropped ==
    pc \in {"third", "fourth", "returned"} =>
        \A i \in 1..Len(task_objects) :
           LET t == task_objects[i].task
               dangling == CleanedDependencies(t.text) \cap OpenKeys(vault) = {}
           IN /\ \A d \in t.dependencies : d.kind = "task" /\ HasKey(task_objects, d.key)
              /\ dangling => t.dependencies = {}
              /\ (/\ pc = "returned"
                  /\ dangling
                  /\ ~t.is_completed
                  /\ (t.start_date = None \/ DateLE(t.start_date, today)))
                    => t.text \in ReturnedTexts

\* a task that names a dependency no open line has was returned
C7_Witness ==
    /\ pc = "returned"
    /\ \E e \in Returned :
          /\ CleanedDependencies(e.text) # {}
          /\ CleanedDependencies(e.text) \cap OpenKeys(vault) = {}

BasicVault(date_segment) ==
    /\ Len(ScannedLines(vault)) = 3
    /\ LineSet(vault) = {TaskLine(OpenPrefix, KeyA, << >>),
                         TaskLine(OpenPrefix, KeyB, date_segment),
                         TaskLine(DonePrefix, KeyC, << >>)}

\* C8 as stated: for the vault "- [ ] A", "- [ ] B <calendar> 2099-01-01",
\* "- [x] C" and today = 2024-01-01, extract_tasks returns exactly A.
C8_BasicExtractionDueDate ==
    (pc = "returned" /\ today = <<2024, 1, 1>> /\ BasicVault(DueDate(Date2099)))
        => ReturnedTexts = {KeyA}

\* C8 as amended: for that vault extract_tasks returns A and B, the calendar
\* marker being no start date; with the start date marker on B it returns
\* exactly A; no returned task has a start date after today, and every
\* returned task stands on an open line.
C8_BasicExtraction ==
    pc = "returned" =>
        /\ (today = <<2024, 1, 1>> /\ BasicVault(DueDate(Date2099)))
              => ReturnedTexts = {KeyA, KeyB \o DueDate(Date2099)}
        /\ (today = <<2024, 1, 1>> /\ BasicVault(StartDate(Date2099)))
              => ReturnedTexts = {KeyA}
        /\ \A e \in Returned :
              /\ StartDateSearch(e.text) # 0
                    => DateLE(FromIsoFormat(e.text, StartDateSearch(e.text)).date, today)
              /\ clean_task_text(e.text) \in OpenKeys(vault)

\* the vault as the scenario writes it was extracted on 2024-01-01
C8_Witness ==
    /\ pc = "returned"
    /\ today = <<2024, 1, 1>>
    /\ BasicVault(DueDate(Date2099))
    /\ Len(eligible_tasks) = 2

\* C9: extract_tasks never raises: a start date that is no calendar date is
\* taken as absent and the passes run to their end.
C9_ParsingNeverRaises == pc # "raised"


\* the cleaned keys of the completed task lines that are scanned
DoneKeys(v) ==
    {clean_task_text(Strip(From(l, 6))) : l \in {x \in LineSet(v) : StartsWith(x, DonePrefix)}}

\* C16: a key that stands on an open task line and on a completed task line of
\* the scanned files, in whatever order and file, names a Task that is marked
\* completed once the third pass is over and that extract_tasks does not
\* return; and no Task marked completed is ever unmarked.
C16_CompletionPropagates ==
    /\ [](pc \in {"fourth", "returned"} =>
            LET both == OpenKeys(vault) \cap DoneKeys(vault)
            IN /\ \A k \in both : HasKey(task_objects, k) /\ Get(task_objects, k).is_completed
               /\ \A e \in Returned : clean_task_text(e.text) \notin both)
    /\ [][\A k \in Keys(task_objects) :
            Get(task_objects, k).is_completed =>
                HasKey(task_objects', k) /\ Get(task_objects', k).is_completed]_vars

\* a vault with the completed line of a key ahead of its open line was extracted
C16_Witness ==
    /\ pc = "returned"
    /\ KeyB \in OpenKeys(vault) \cap DoneKeys(vault)
    /\ StartsWith(ScannedLines(vault)[1], DonePrefix)
    /\ Get(task_objects, KeyB).is_completed


----------------------------------------------------------------------------
(* msbee.py: update_daily_note *)

\* In a note each marker is one token: a note holds whole markers only.
start_marker == <<"<!-- START tasks -->">>
end_marker == <<"<!-- END tasks -->">>
BS == "\\"

\* the characters that \a \b \f \n \r \t \v stand for in a replacement template
EscapeLetters == {"a", "b", "f", "n", "r", "t", "v"}
Escaped(c) ==
    CASE c = "n" -> NL [] c = "t" -> "\t" [] c = "r" -> "\r" [] c = "a" -> "U+0007"
      [] c = "b" -> "U+0008" [] c = "f" -> "U+000C" [] c = "v" -> "U+000B"

\* re's parsing of the replacement string of re.sub: the text it stands for, or
\* raised (re.error) on a group reference, no group being in the pattern, and
\* on a backslash before any other ASCII letter or at the end
RECURSIVE ExpandTemplate(_)
ExpandTemplate(repl) ==
    IF repl = << >> THEN [raised |-> FALSE, text |-> << >>]
    ELSE IF repl[1] # BS
    THEN LET rest == ExpandTemplate(Tail(repl))
         IN [raised |-> rest.raised, text |-> <<repl[1]>> \o rest.text]
    ELSE IF Len(repl) = 1 THEN [raised |-> TRUE, text |-> << >>]
    ELSE LET c == repl[2]
             rest == ExpandTemplate(SubSeq(repl, 3, Len(repl)))
         IN IF c = BS THEN [raised |-> rest.raised, text |-> <<BS>> \o rest.text]
            ELSE IF c \in EscapeLetters
            THEN [raised |-> rest.raised, text |-> <<Escaped(c)>> \o rest.text]
            ELSE IF c \in Letters \cup Digits THEN [raised |-> TRUE, text |-> << >>]
            ELSE [raised |-> rest.raised, text |-> <<BS, c>> \o rest.text]

\* a plausible slip: the replacement spliced in once, at the first match only
SubFirstOnly(text, replacement) ==
    LET i == Find(text, start_marker)
        j == IF i = 0 THEN 0 ELSE FindFrom(text, end_marker, i + Len(start_marker))
    IN IF i = 0 \/ j = 0 THEN text
       ELSE SubSeq(text, 1, i - 1) \o replacement
            \o SubSeq(text, j + Len(end_marker), Len(text))

\* re.sub(start_marker + ".*?" + end_marker, ..., text, flags=re.DOTALL) with the
\* expanded replacement: every match, left to right, replaced
RECURSIVE SubAll(_, _)
SubAll(text, replacement) ==
    LET i == Find(text, start_marker)
        j == IF i = 0 THEN 0 ELSE FindFrom(text, end_marker, i + Len(start_marker))
    IN IF i = 0 \/ j = 0 THEN text
       ELSE SubSeq(text, 1, i - 1) \o replacement
            \o SubAll(SubSeq(text, j + Len(end_marker), Len(text)), replacement)

NoFile == [exists |-> FALSE, text |-> << >>]
NoteFile(text) == [exists |-> TRUE, text |-> text]

\* a plausible slip: the block appended without looking for the markers
UpdatedByAppending(file, new_content) ==
    IF ~file.exists THEN [outcome |-> "not found", note |-> file]
    ELSE [outcome |-> "written",
          note |-> NoteFile(Strip(file.text) \o <<NL, NL>> \o start_marker \o <<NL>>
                            \o new_content \o <<NL>> \o end_marker)]

\* update_daily_note(content, note_date) on the note of that date
update_daily_note(file, new_content) ==
    IF ~file.exists THEN [outcome |-> "not found", note |-> file]
    ELSE IF Contains(file.text, start_marker) /\ Contains(file.text, end_marker)
    THEN LET replacement ==
                 ExpandTemplate(start_marker \o <<NL>> \o new_content \o <<NL>> \o end_marker)
         IN IF replacement.raised THEN [outcome |-> "raised", note |-> file]
            ELSE [outcome |-> "written",
                  note |-> NoteFile(SubAll(file.text, replacement.text))]
    ELSE [outcome |-> "written",
          note |-> NoteFile(Strip(file.text) \o <<NL, NL>> \o start_marker \o <<NL>>
                            \o new_content \o <<NL>> \o end_marker)]

----------------------------------------------------------------------------
(* update_daily_note called on a daily note *)

NoteTokens == {"a", NL} \cup {start_marker[1], end_marker[1]}
ContentChars == {"x", BS}
Contents == SeqsUpTo(ContentChars, MaxContent)

InitNote ==
    /\ cleanArg = Idle /\ cleanRet = Idle
    /\ gpt_content = Idle /\ reply = Idle
    /\ note \in {NoFile} \cup {NoteFile(t) : t \in SeqsUpTo(NoteTokens, MaxText)}
    /\ prevNote = note
    /\ content = << >>
    /\ outcome = "none"
    /\ calls = 0
    /\ vault = Idle /\ prevVault = Idle /\ runs = 0 /\ wrote = Idle
    /\ task = Idle /\ result = Idle
    /\ pc = Idle /\ task_objects = Idle /\ completed_tasks = Idle
    /\ eligible_tasks = Idle /\ today = Idle

UpdateDailyNote ==
    /\ calls < MaxCalls
    /\ \E c \in Contents :
          LET updated == update_daily_note(note, c)
          IN /\ content' = c
             /\ note' = updated.note
             /\ outcome' = updated.outcome
    /\ prevNote' = note
    /\ calls' = calls + 1
    /\ UNCHANGED <<taskVars, vault, idVars, extractVars, cleanVars, askVars>>

NextNote == UpdateDailyNote

SpecNote == InitNote /\ [][NextNote]_vars

Count(s, token) == Cardinality({i \in 1..Len(s) : s[i] = token})

\* the note held one start marker and one end marker, the start marker first
OneMarkerPair(text) ==
    /\ Count(text, start_marker[1]) = 1
    /\ Count(text, end_marker[1]) = 1
    /\ Find(text, start_marker) < Find(text, end_marker)

\* C10: when the note holds the marker pair, update_daily_note leaves the text
\* up to the start marker and from the end marker on as it was, and puts the
\* new content, on lines of its own, between the two, whatever the content.
C10_OnlyTheRegionChanges ==
    (calls >= 1 /\ prevNote.exists /\ OneMarkerPair(prevNote.text)) =>
        note.text = SubSeq(prevNote.text, 1, Find(prevNote.text, start_marker))
                    \o <<NL>> \o content \o <<NL>>
                    \o SubSeq(prevNote.text, Find(prevNote.text, end_marker),
                              Len(prevNote.text))

\* the note holds no marker at all, or one start marker followed by one end marker
WellFormedNote(text) ==
    \/ Count(text, start_marker[1]) = 0 /\ Count(text, end_marker[1]) = 0
    \/ OneMarkerPair(text)

\* C11: on an existing note with no marker or one marker pair, a call of
\* update_daily_note leaves exactly one marked block, and a call that repeats
\* the content of the call before it leaves the file as that call left it.
C11_IdempotentUpToContent ==
    [][(note.exists /\ WellFormedNote(note.text)) =>
          /\ OneMarkerPair(note'.text)
          /\ (calls >= 1 /\ content' = content) => note' = note]_vars

\* C12: when the note exists and holds no marker, update_daily_note writes the
\* old text with only its trailing whitespace trimmed, then a blank line, then
\* the start marker, the content and the end marker, each on lines of their own.
C12_AppendedAfterTrailingTrim ==
    (calls >= 1 /\ prevNote.exists
       /\ Count(prevNote.text, start_marker[1]) = 0
       /\ Count(prevNote.text, end_marker[1]) = 0) =>
        note.text = RStrip(prevNote.text) \o <<NL, NL>> \o start_marker \o <<NL>>
                    \o content \o <<NL>> \o end_marker

----------------------------------------------------------------------------
(* clean_task_text called on a task text, then on what it returned *)

CleanTexts(n) ==
    SeqsUpTo({"a", SP, PLUS, CAL}, n)
        \cup SeqsUpTo({"a", SP, SKIP, VS16}, n)
        \cup SeqsUpTo({"a", SP, NOENTRY, IDSIGN}, n)

InitClean ==
    /\ cleanArg \in CleanTexts(MaxCleanLen)
    /\ cleanRet = << >>
    /\ gpt_content = Idle /\ reply = Idle
    /\ vault = Idle /\ prevVault = Idle /\ runs = 0 /\ wrote = Idle
    /\ task = Idle /\ result = Idle
    /\ pc = Idle /\ task_objects = Idle /\ completed_tasks = Idle
    /\ eligible_tasks = Idle /\ today = Idle
    /\ note = Idle /\ prevNote = Idle /\ content = Idle /\ outcome = Idle /\ calls = 0

\* clean_task_text(t)
CleanTaskText ==
    /\ cleanRet = << >>
    /\ cleanRet' = <<clean_task_text(cleanArg)>>
    /\ UNCHANGED <<cleanArg, taskVars, vault, idVars, extractVars, noteVars, askVars>>

\* clean_task_text on the value the call before returned
CleanAgain ==
    /\ cleanRet # << >>
    /\ Len(cleanRet) < MaxCleanCalls
    /\ cleanRet' = Append(cleanRet, clean_task_text(cleanRet[Len(cleanRet)]))
    /\ UNCHANGED <<cleanArg, taskVars, vault, idVars, extractVars, noteVars, askVars>>

NextClean == CleanTaskText \/ CleanAgain

SpecClean == InitClean /\ [][NextClean]_vars

\* C13: cleaning what clean_task_text returned returns it again.
C13_CleanIdempotent ==
    \A k \in 2..Len(cleanRet) : cleanRet[k] = cleanRet[k - 1]

\* a text that a marker cut short of its first character was cleaned twice
C13_Witness ==
    /\ Len(cleanRet) = 2
    /\ cleanRet[1] # cleanArg
    /\ cleanRet[1] # << >>

\* the five markers clean_task_text cuts at, each between two spaces
CleanMarkers ==
    {<<SP, PLUS, SP>>, <<SP, CAL, SP>>, <<SP, SKIP, VS16, SP>>, <<SP, NOENTRY, SP>>,
     <<SP, IDSIGN, SP>>}

\* the text up to the earliest place where one of the markers occurs in it
TruncatedAtEarliestMarker(t) ==
    LET places == {Find(t, m) : m \in {x \in CleanMarkers : Contains(t, x)}}
    IN IF places = {} THEN t ELSE SubSeq(t, 1, Min(places) - 1)

\* C14: clean_task_text returns the text cut at the earliest place where any
\* of the five markers occurs in it, and the text itself if none occurs.
C14_CutAtEarliestMarker ==
    cleanRet # << >> => cleanRet[1] = TruncatedAtEarliestMarker(cleanArg)

----------------------------------------------------------------------------
(* msbee.py: ask_msbee, from the reply of the summarizer on.  A text is a     *)
(* sequence of tokens; the headings, the fixed pieces of a task line and the  *)
(* identifiers are one token each.                                            *)

FOCUS == "## U+1F31F Focus Tasks"
NUDGE == "## U+1F41D Nudge"
QUOTEH == "## U+1F512 Lock Screen Quote"
\* the tokens that begin with "## "
Headings == {FOCUS, NUDGE, QUOTEH}
\* what is left of a heading when "## " is matched and the match is stripped
HASHES == "##"
DQ == "\""
INWORD == " in "
IDOPEN == " (ID: "
CLOSE == ")"
\* an em dash or a hyphen with the spaces around it, as the pattern of the reason reads it
DASH == " U+2014 "
HYPHEN == " - "
Dashes == {DASH, HYPHEN}
\* three grave accents (U+0060), with and without the word tasks
FENCE == "U+0060 U+0060 U+0060 tasks"
FENCEEND == "U+0060 U+0060 U+0060"
INCLUDES == "(id includes "
ORWORD == " OR "
OPEN == "("
\* the number and full stop that open a task line, for the first few numbers
Numbers == <<"1.", "2.", "3.", "4.", "5.", "6.", "7.", "8.", "9.">>
NumberTokens == {Numbers[i] : i \in 1..Len(Numbers)}
\* identifiers that [a-zA-Z0-9]{6} matches, and one it does not
SixAlnum == {"abc123", "def456"}
ShortId == "ab12"
\* tokens holding whitespace
HasSpace(c) == IsSpace(c) \/ c \in {INWORD, IDOPEN, ORWORD, INCLUDES} \cup Dashes \cup Headings

\* re.search of a heading, the shortest text after it and "## " or the end: where the
\* heading stands and where the match ends (the heading that ends it, or one
\* past the end of the text); found is FALSE when no character follows it
SectionSearch(g, heading) ==
    LET i == Find(g, <<heading>>)
        later == {j \in (i + 2)..Len(g) : g[j] \in Headings}
    IN IF i = 0 \/ i = Len(g) THEN [found |-> FALSE, from |-> 0, to |-> 0]
       ELSE [found |-> TRUE, from |-> i,
             to |-> IF later = {} THEN Len(g) + 1 ELSE Min(later)]

\* the first position >= i of line that holds a token with whitespace, Len+1 if none
RECURSIVE FirstHasSpace(_, _)
FirstHasSpace(line, i) ==
    IF i > Len(line) THEN Len(line) + 1
    ELSE IF HasSpace(line[i]) THEN i
    ELSE FirstHasSpace(line, i + 1)

NoMatch == [matched |-> FALSE]

\* the pattern of a chosen task line tried with a description of k tokens:
\* number, optional spaces, quoted description, " in ", a path without
\* whitespace, " (ID: ", six letters or digits, ")" and, with_reason, a dash and
\* at least one more character
TaskMatchAt(line, k, with_reason) ==
    LET q == SkipSpace(line, 2)
        r == FirstHasSpace(line, q + k + 3)
    IN IF /\ Len(line) >= 1 /\ line[1] \in NumberTokens
          /\ q <= Len(line) /\ line[q] = DQ
          /\ q + k + 2 <= Len(line)
          /\ line[q + k + 1] = DQ /\ line[q + k + 2] = INWORD
          /\ r > q + k + 3 /\ r + 2 <= Len(line)
          /\ line[r] = IDOPEN /\ line[r + 1] \in SixAlnum /\ line[r + 2] = CLOSE
          /\ with_reason => (r + 4 <= Len(line) /\ line[r + 3] \in Dashes)
       THEN [matched |-> TRUE,
             desc |-> SubSeq(line, q + 1, q + k),
             path |-> SubSeq(line, q + k + 3, r - 1),
             task_id |-> line[r + 1],
             reason |-> IF with_reason THEN SubSeq(line, r + 4, Len(line)) ELSE << >>]
       ELSE NoMatch

\* re.match of the pattern on a line: the description is the shortest that fits
TaskMatch(line, with_reason) ==
    LET fits == {k \in 1..Len(line) : TaskMatchAt(line, k, with_reason).matched}
    IN IF fits = {} THEN NoMatch ELSE TaskMatchAt(line, Min(fits), with_reason)

\* the loop over the lines of the focus section: the pattern with a reason,
\* else the pattern without one, else the line is passed over
RECURSIVE ChosenTasks(_)
ChosenTasks(lines) ==
    IF lines = << >> THEN << >>
    ELSE LET m == TaskMatch(lines[1], TRUE)
             fallback == TaskMatch(lines[1], FALSE)
         IN (IF m.matched THEN <<m>>
             ELSE IF fallback.matched THEN <<fallback>>
             ELSE << >>) \o ChosenTasks(Tail(lines))

\* the condition '(id includes <task_id>)' of each chosen task, in order
RECURSIVE TaskConditions(_)
TaskConditions(chosen_tasks) ==
    IF chosen_tasks = << >> THEN << >>
    ELSE <<(<<INCLUDES, chosen_tasks[1].task_id, CLOSE>>)>> \o TaskConditions(Tail(chosen_tasks))

\* " OR ".join(task_conditions)
RECURSIVE JoinOr(_)
JoinOr(task_conditions) ==
    IF task_conditions = << >> THEN << >>
    ELSE IF Len(task_conditions) = 1 THEN task_conditions[1]
    ELSE task_conditions[1] \o <<ORWORD>> \o JoinOr(Tail(task_conditions))

\* a plausible slip: the query made of the first condition alone
TasksQueryOfFirst(task_conditions) ==
    IF task_conditions = << >> THEN << >> ELSE task_conditions[1]

\* tasks_query: the conditions joined, in parentheses when more than one
TasksQuery(task_conditions) ==
    IF task_conditions = << >> THEN << >>
    ELSE IF Len(task_conditions) > 1 THEN <<OPEN>> \o JoinOr(task_conditions) \o <<CLOSE>>
    ELSE JoinOr(task_conditions)

\* the numbered lines rebuilt from the chosen tasks, from number i on
RECURSIVE ListedTasks(_, _)
ListedTasks(chosen_tasks, i) ==
    IF chosen_tasks = << >> THEN << >>
    ELSE LET t == chosen_tasks[1]
         IN <<Numbers[i], SP, DQ>> \o t.desc \o <<DQ, INWORD>> \o t.path
            \o <<IDOPEN, t.task_id, CLOSE>>
            \o (IF t.reason # << >> THEN <<DASH>> \o t.reason ELSE << >>)
            \o <<NL>> \o ListedTasks(Tail(chosen_tasks), i + 1)

\* focus_md: the query block, if there is a query, and the listed tasks
FocusMd(chosen_tasks) ==
    LET tasks_query == TasksQuery(TaskConditions(chosen_tasks))
    IN (IF tasks_query # << >> THEN <<FENCE, NL>> \o tasks_query \o <<NL, FENCEEND, NL>>
        ELSE << >>)
       \o ListedTasks(chosen_tasks, 1)

\* nudge_md: the whole match of the nudge section, stripped; the match takes in
\* the "## " of the heading that ends it
NudgeMd(g) ==
    LET m == SectionSearch(g, NUDGE)
    IN IF ~m.found THEN << >>
       ELSE Strip(SubSeq(g, m.from, m.to - 1)
                  \o (IF m.to <= Len(g) THEN <<HASHES>> ELSE << >>))

\* quote_md: from the quote heading to the end of the reply, stripped
QuoteMd(g) ==
    LET i == Find(g, <<QUOTEH>>)
    IN IF i = 0 \/ i = Len(g) THEN << >> ELSE Strip(SubSeq(g, i, Len(g)))

\* ask_msbee from the reply on: the chosen tasks and the text returned
ask_msbee(g) ==
    LET focus_section == SectionSearch(g, FOCUS)
        lines == IF focus_section.found
                 THEN ReadLines(Strip(SubSeq(g, focus_section.from + 1, focus_section.to - 1)))
                 ELSE << >>
        chosen_tasks == ChosenTasks(lines)
        focus_md == FocusMd(chosen_tasks)
    IN [called |-> TRUE,
        chosen_tasks |-> chosen_tasks,
        focus_md |-> focus_md,
        text |-> <<FOCUS, NL>> \o focus_md \o <<NL>> \o NudgeMd(g) \o <<NL, NL>> \o QuoteMd(g)]

----------------------------------------------------------------------------
(* ask_msbee called with a reply of the summarizer *)

\* the lines a reply is made of: the three headings, a chosen task with a
\* reason after a hyphen, one without a reason, one whose identifier is too
\* short, and the opening of a tasks block
ReplyLines ==
    {<<FOCUS>>, <<NUDGE>>, <<QUOTEH>>,
     <<"1.", SP, DQ, "a", DQ, INWORD, "p", IDOPEN, "abc123", CLOSE, HYPHEN, "r">>,
     <<"2.", DQ, "b", DQ, INWORD, "q", IDOPEN, "def456", CLOSE>>,
     <<"3.", SP, DQ, "c", DQ, INWORD, "p", IDOPEN, ShortId, CLOSE>>,
     <<FENCE>>}

Replies(n) == {JoinLines(ls) : ls \in SeqsUpTo(ReplyLines, n)}

NoReply == [called |-> FALSE]

InitAsk ==
    /\ gpt_content \in Replies(MaxReplyLines)
    /\ reply = NoReply
    /\ cleanArg = Idle /\ cleanRet = Idle
    /\ vault = Idle /\ prevVault = Idle /\ runs = 0 /\ wrote = Idle
    /\ task = Idle /\ result = Idle
    /\ pc = Idle /\ task_objects = Idle /\ completed_tasks = Idle
    /\ eligible_tasks = Idle /\ today = Idle
    /\ note = Idle /\ prevNote = Idle /\ content = Idle /\ outcome = Idle /\ calls = 0

\* ask_msbee(tasks, roadmap), the summarizer answering gpt_content
AskMsBee ==
    /\ ~reply.called
    /\ reply' = ask_msbee(gpt_content)
    /\ UNCHANGED <<gpt_content, taskVars, vault, idVars, extractVars, noteVars, cleanVars>>

NextAsk == AskMsBee

SpecAsk == InitAsk /\ [][NextAsk]_vars

\* the identifiers that stand after "(id includes " in a text, in order
RECURSIVE IncludedIds(_)
IncludedIds(text) ==
    IF Len(text) < 2 THEN << >>
    ELSE IF text[1] = INCLUDES THEN <<text[2]>> \o IncludedIds(Tail(text))
    ELSE IncludedIds(Tail(text))

\* how many lines of a text read as a chosen task line
ListedLines(text) ==
    LET lines == ReadLines(text)
    IN Cardinality({i \in 1..Len(lines) : TaskMatch(lines[i], FALSE).matched})

\* text holds a tasks block exactly when a task was chosen; the block names
\* the identifiers of the chosen tasks, one each and in order, with OR between
\* them and parentheses around them when they are several; and text lists as
\* many task lines as tasks were chosen
QueryMatchesChosen(text, chosen_tasks) ==
    LET n == Len(chosen_tasks)
    IN /\ (Count(text, FENCE) >= 1) <=> (n >= 1)
       /\ Count(text, FENCE) <= 1
       /\ IncludedIds(text) = [i \in 1..n |-> chosen_tasks[i].task_id]
       /\ Count(text, ORWORD) = (IF n >= 1 THEN n - 1 ELSE 0)
       /\ (n > 1) => /\ Contains(text, <<FENCE, NL, OPEN, INCLUDES>>)
                     /\ Contains(text, <<CLOSE, CLOSE, NL, FENCEEND>>)
       /\ ListedLines(text) = n

\* C15 as stated: the text ask_msbee returns holds the tasks block and the
\* listed task lines of the chosen tasks and no other, whatever the reply.
C15_QueryMatchesParsed ==
    reply.called => QueryMatchesChosen(reply.text, reply.chosen_tasks)

\* C15: the Focus Tasks part that ask_msbee builds, ahead of the nudge and
\* quote sections it copies from the reply, holds a tasks block exactly when a
\* task was chosen, with one condition per chosen task, and lists one line per
\* chosen task, with or without reasons and for any number of chosen tasks.
C15_FocusPartMatchesParsed ==
    reply.called => QueryMatchesChosen(<<FOCUS, NL>> \o reply.focus_md, reply.chosen_tasks)

\* four tasks were chosen, some with a reason and some without
C15_Witness ==
    /\ reply.called
    /\ Len(reply.chosen_tasks) = 4
    /\ \E i, j \in 1..4 : /\ reply.chosen_tasks[i].reason = << >>
                          /\ reply.chosen_tasks[j].reason # << >>

----------------------------------------------------------------------------
(* __main__: add_task_ids_to_vault, then extract_tasks on the same vault *)

Indent == <<SP, SP>>

MainLines ==
    {TaskLine(OpenPrefix, KeyA, << >>),
     Indent \o TaskLine(OpenPrefix, KeyC, << >>),
     TaskLine(OpenPrefix, KeyA, Dependency(KeyB)),
     TaskLine(OpenPrefix, KeyB, << >>),
     TaskLine(OpenPrefix, KeyB, IdSegment),
     TaskLine(DonePrefix, KeyB, << >>),
     TaskLine(OpenPrefix, KeyC, DueDate(Date2099)),
     TaskLine(OpenPrefix, KeyC, StartDate(Date2099)),
     TaskLine(OpenPrefix, KeyC, StartDate(Date2024_13_45))}

MainVaults(n) ==
    {<<MdFile(FALSE, FileText(lines, TRUE))>> : lines \in SeqsUpTo(MainLines, n)}

InitMain ==
    /\ vault \in MainVaults(MaxMainLines)
    /\ prevVault = vault
    /\ runs = 0
    /\ wrote = [f \in 1..Len(vault) |-> FALSE]
    /\ pc = "ids"
    /\ task_objects = << >>
    /\ completed_tasks = {}
    /\ eligible_tasks = << >>
    /\ today = None
    /\ cleanArg = Idle /\ cleanRet = Idle
    /\ gpt_content = Idle /\ reply = Idle
    /\ task = Idle /\ result = Idle
    /\ note = Idle /\ prevNote = Idle /\ content = Idle /\ outcome = Idle /\ calls = 0

\* add_task_ids_to_vault(msbee.vault_path), the first step of __main__
MainAddTaskIds ==
    /\ pc = "ids"
    /\ \E ids \in IdDraws(vault) :
          LET after == [f \in 1..Len(vault) |-> FileAfterAddIds(vault[f], ids[f])]
          IN /\ vault' = [f \in 1..Len(vault) |-> after[f].file]
             /\ wrote' = [f \in 1..Len(vault) |-> after[f].wrote]
    /\ prevVault' = vault
    /\ runs' = runs + 1
    /\ pc' = "first"
    /\ UNCHANGED <<taskVars, task_objects, completed_tasks, eligible_tasks, today,
                   noteVars, cleanVars, askVars>>

\* then msbee.extract_tasks(today), pass after pass
NextMain ==
    \/ MainAddTaskIds
    \/ CollectTasks
    \/ CollectRaises
    \/ ResolveDependencies
    \/ MarkCompletedTasks
    \/ ReturnEligible

SpecMain == InitMain /\ [][NextMain]_vars

\* C17: every task that extract_tasks returns after add_task_ids_to_vault has
\* run over the vault carries an identifier of six characters.
C17_ReturnedTasksCarryIds ==
    (pc = "returned" /\ runs >= 1) =>
        \A e \in Returned : e.task_id # None /\ Len(e.task_id) = IdLen

\* what extract_tasks reads from an open task line: key, start date, dependencies
ReadFromLine(line) ==
    LET task_text == Strip(From(Strip(line), 6))
    IN [key |-> clean_task_text(task_text),
        start |-> LET p == StartDateSearch(task_text)
                  IN IF p = 0 THEN None ELSE SubSeq(task_text, p, p + 9),
        dependencies |-> CleanedDependencies(task_text)]

\* the cleaned keys extract_tasks returns for vault v on that day
ReturnedKeysOf(v, day) ==
    LET collected == FirstPass(v)
        after_third == ThirdPass(SecondPass(collected.task_objects), collected.completed_tasks)
        eligible == FourthPass(after_third, day)
    IN {clean_task_text(eligible[i].text) : i \in 1..Len(eligible)}

\* C18: add_task_ids_to_vault leaves the key, the start date and the
\* dependencies of every open task line as extract_tasks reads them, and so
\* the keys extract_tasks returns on a day are those it would have returned
\* on the vault as it was before.
C18_StampingKeepsExtraction ==
    /\ runs >= 1 =>
          \A f \in 1..Len(vault) :
             LET before == ReadLines(prevVault[f].text)
                 after == ReadLines(vault[f].text)
             IN \A i \in 1..Len(before) :
                   StartsWith(Strip(before[i]), OpenPrefix) =>
                       ReadFromLine(after[i]) = ReadFromLine(before[i])
    /\ (pc = "returned" /\ runs >= 1) =>
          {clean_task_text(e.text) : e \in Returned} = ReturnedKeysOf(prevVault, today)

====
